---- MODULE Spec2Model ----
(***************************************************************************)
(* CLDR pattern interpreter of the Time facet (src/time.rs): the pattern   *)
(* grammar (nom combinators), the field dispatch and the default facet.    *)
(* Strings are sequences of one-character strings.                         *)
(***************************************************************************)
EXTENDS Integers, Sequences, FiniteSets, TLC

VARIABLES date, time, tzinfo, mzinfo, fmt, week_start, pc, lookup, input, acc, out, calls, result

vars == <<date, time, tzinfo, mzinfo, fmt, week_start, pc, lookup, input, acc, out, calls, result>>

(* ------------------------------ characters ----------------------------- *)

Upper == {"A","B","C","D","E","F","G","H","I","J","K","L","M",
          "N","O","P","Q","R","S","T","U","V","W","X","Y","Z"}

Lower == {"a","b","c","d","e","f","g","h","i","j","k","l","m",
          "n","o","p","q","r","s","t","u","v","w","x","y","z"}

Quote == "'"

OtherStop_NoP == {Quote} \cup Upper \cup (Lower \ {"p"})

\* The characters excluded by the literal-text branch of do_format_other.
OtherStop == {Quote} \cup Upper \cup Lower

Min(S) == CHOOSE x \in S : \A y \in S : x <= y

Max(a, b) == IF a >= b THEN a ELSE b

Take(s, n) == SubSeq(s, 1, n)

Drop(s, n) == SubSeq(s, n + 1, Len(s))

Rep(c, n) == [i \in 1..n |-> c]

RECURSIVE Pow10(_)
Pow10(n) == IF n = 0 THEN 1 ELSE 10 * Pow10(n - 1)

\* Rust's % on signed integers truncates toward zero.
Rem(a, b) == IF a >= 0 THEN a % b ELSE -((-a) % b)

\* A u32 beyond TLC's 32-bit integers is carried as two 16-bit limbs <<hi, lo>>.
Limb == 256 * 256

Limbs(n) == <<n \div Limb, n % Limb>>

\* x * 10 in wrapping u32 arithmetic
Mul10(x) == <<(x[1] * 10 + ((x[2] * 10) \div Limb)) % Limb, (x[2] * 10) % Limb>>

\* x * 10^w in wrapping u32 arithmetic
RECURSIVE MulPow10(_, _)
MulPow10(x, w) == IF w = 0 THEN x ELSE MulPow10(Mul10(x), w - 1)

(* ------------------------------ Option<T> ------------------------------ *)

None == <<>>

Some(x) == <<x>>

is_some(o) == o # <<>>

unwrap(o) == o[1]

(* ------------------- chrono::NaiveDate, as time.rs reads it ------------ *)

IsLeap(y) == (y % 4 = 0 /\ y % 100 # 0) \/ y % 400 = 0

DaysInMonth(y, m) ==
    IF m = 2 THEN (IF IsLeap(y) THEN 29 ELSE 28)
    ELSE IF m \in {4, 6, 9, 11} THEN 30 ELSE 31

RECURSIVE DaysBefore(_, _)
DaysBefore(y, m) == IF m = 1 THEN 0 ELSE DaysBefore(y, m - 1) + DaysInMonth(y, m - 1)

\* Datelike::ordinal, day of the year from 1
ordinal(d) == DaysBefore(d.year, d.month) + d.day

\* Days since 0000-12-31 in the proleptic Gregorian calendar (0001-01-01 is a Monday).
DayNumber(d) ==
    LET p == d.year - 1
    IN  365 * p + (p \div 4) - (p \div 100) + (p \div 400) + ordinal(d)

\* Datelike::weekday followed by Weekday::num_days_from_sunday, Sunday = 0
weekday(d) == DayNumber(d) % 7

\* Datelike::year_ce: (is CE, year of era)
year_ce(d) == IF d.year > 0 THEN <<TRUE, d.year>> ELSE <<FALSE, 1 - d.year>>

month0(d) == d.month - 1

WeeksInYear(y) ==
    LET jan1 == weekday([year |-> y, month |-> 1, day |-> 1])
    IN  IF jan1 = 4 \/ (IsLeap(y) /\ jan1 = 3) THEN 53 ELSE 52

\* Datelike::iso_week: [year, week]
iso_week(d) ==
    LET wd == ((weekday(d) + 6) % 7) + 1
        w  == (ordinal(d) - wd + 10) \div 7
    IN  IF w < 1 THEN [year |-> d.year - 1, week |-> WeeksInYear(d.year - 1)]
        ELSE IF w > WeeksInYear(d.year) THEN [year |-> d.year + 1, week |-> 1]
        ELSE [year |-> d.year, week |-> w]

(* ------------------- chrono::NaiveTime, as time.rs reads it ------------ *)

\* Timelike::hour12: (is PM, hour in 1..12)
hour12(t) == <<t.hour >= 12, IF t.hour % 12 = 0 THEN 12 ELSE t.hour % 12>>

(* ------------------------- std::fmt of integers ------------------------ *)

DigitChar == <<"0", "1", "2", "3", "4", "5", "6", "7", "8", "9">>

RECURSIVE Digits(_)
Digits(n) == IF n < 10 THEN <<DigitChar[n + 1]>> ELSE Append(Digits(n \div 10), DigitChar[(n % 10) + 1])

\* The decimal digits of the u32 with limbs x
RECURSIVE DigitsU32(_)
DigitsU32(x) ==
    LET low == (x[1] % 10) * Limb + x[2]
        q   == <<x[1] \div 10, low \div 10>>
    IN  IF q = <<0, 0>> THEN <<DigitChar[(low % 10) + 1]>>
        ELSE Append(DigitsU32(q), DigitChar[(low % 10) + 1])

ZeroPad_NoFill(n, width) ==
    (IF n < 0 THEN <<"-">> ELSE <<>>) \o Digits(IF n < 0 THEN -n ELSE n)

\* format_args!("{value:0width$}"): sign-aware zero padding to at least `width` characters
ZeroPad(n, width) ==
    LET mag  == Digits(IF n < 0 THEN -n ELSE n)
        sign == IF n < 0 THEN <<"-">> ELSE <<>>
        fill == Max(width - Len(mag) - Len(sign), 0)
    IN  sign \o Rep("0", fill) \o mag

MONTHS ==
    << <<"J", "a", "n", "u", "a", "r", "y">>,
       <<"F", "e", "b", "r", "u", "a", "r", "y">>,
       <<"M", "a", "r", "c", "h">>,
       <<"A", "p", "r", "i", "l">>,
       <<"M", "a", "y">>,
       <<"J", "u", "n", "e">>,
       <<"J", "u", "l", "y">>,
       <<"A", "u", "g", "u", "s", "t">>,
       <<"S", "e", "p", "t", "e", "m", "b", "e", "r">>,
       <<"O", "c", "t", "o", "b", "e", "r">>,
       <<"N", "o", "v", "e", "m", "b", "e", "r">>,
       <<"D", "e", "c", "e", "m", "b", "e", "r">> >>

DAYS ==
    << <<"S", "u", "n", "d", "a", "y">>,
       <<"M", "o", "n", "d", "a", "y">>,
       <<"T", "u", "e", "s", "d", "a", "y">>,
       <<"W", "e", "d", "n", "e", "s", "d", "a", "y">>,
       <<"T", "h", "u", "r", "s", "d", "a", "y">>,
       <<"F", "r", "i", "d", "a", "y">>,
       <<"S", "a", "t", "u", "r", "d", "a", "y">> >>

(* ------------------- default methods of the Time facet ----------------- *)

Gregorian == "Gregorian"

\* The outcome of one directive's closure: its fmt::Result, the facet method it
\* called (op = "none" when it returned before calling one) and the text written.
Outcome(res, op, w, n, digits, text) ==
    [res |-> res, op |-> op, w |-> w, n |-> n, digits |-> digits, text |-> text]

EarlyErr == Outcome("Err", "none", "-", 0, 0, <<>>)

get_date_format(f) == [res |-> "Ok", fmt |-> f]

get_time_format(f) == [res |-> "Ok", fmt |-> f]

get_datetime_format(f) == [res |-> "Ok", fmt |-> f]

Wide == {"FormatWide", "StandAloneWide"}

Narrow == {"FormatNarrow", "StandAloneNarrow"}

fmt_month(w, c, n) ==
    IF c # Gregorian THEN Outcome("Err", "fmt_month", w, n, 0, <<>>)
    ELSE Outcome("Ok", "fmt_month", w, n, 0,
                 IF w \in Wide THEN MONTHS[n]
                 ELSE IF w \in Narrow THEN Take(MONTHS[n], 1)
                 ELSE Take(MONTHS[n], 3))

fmt_day(w, c, d) ==
    IF c # Gregorian THEN Outcome("Err", "fmt_day", w, d, 0, <<>>)
    ELSE Outcome("Ok", "fmt_day", w, d, 0,
                 IF w \in Wide THEN DAYS[d + 1]
                 ELSE IF w \in Narrow THEN Take(DAYS[d + 1], 1)
                 ELSE Take(DAYS[d + 1], 3))

fmt_quarter(w, c, n) == Outcome("Ok", "fmt_quarter", w, n, 0, <<"Q">> \o Digits(n))

\* p is a DayPeriod: "AM", "PM", "Midnight", "Noon"
fmt_period(w, c, p) ==
    Outcome("Ok", "fmt_period", w, 0, 0,
            IF p \in {"AM", "Midnight"} THEN <<"A", "M">> ELSE <<"P", "M">>)

fmt_era(w, c, n) ==
    IF c # Gregorian THEN Outcome("Err", "fmt_era", w, n, 0, <<>>)
    ELSE IF n = 0 THEN Outcome("Ok", "fmt_era", w, n, 0, <<"B", "C", "E">>)
    ELSE IF n = 1 THEN Outcome("Ok", "fmt_era", w, n, 0, <<"C", "E">>)
    ELSE Outcome("Err", "fmt_era", w, n, 0, <<>>)

fmt_number(n, digits) == Outcome("Ok", "fmt_number", "-", n, digits, ZeroPad(n, digits))

\* fmt_number of a u32 carried as limbs x
fmt_number_u32(x, digits) ==
    Outcome("Ok", "fmt_number", "-", x, digits,
            Rep("0", Max(digits - Len(DigitsU32(x)), 0)) \o DigitsU32(x))

(* --------------------------- nom combinators --------------------------- *)

\* is_a_s!: the length of the longest prefix made of characters of `set` (0: Error)
is_a_s(inp, set) ==
    LET stop == {i \in 1..Len(inp) : inp[i] \notin set}
    IN  IF stop = {} THEN Len(inp) ELSE Min(stop) - 1

\* is_not_s!: the length of the longest prefix with no character of `set` (0: Error)
is_not_s(inp, set) ==
    LET stop == {i \in 1..Len(inp) : inp[i] \in set}
    IN  IF stop = {} THEN Len(inp) ELSE Min(stop) - 1

\* tag_s!: "Incomplete" when the input is shorter than the tag
tag_s(inp, tag) ==
    IF Len(tag) > Len(inp) THEN "Incomplete"
    ELSE IF Take(inp, Len(tag)) = tag THEN "Done"
    ELSE "Error"

\* A parser's IResult: Done(rest, o) with n characters consumed, or Error.
Done(n, o) == [done |-> TRUE, n |-> n, o |-> o]

Error == [done |-> FALSE, n |-> 0, o |-> EarlyErr]

(* --------------------------- pattern grammars -------------------------- *)

fmt_era_of(s, d) ==
    IF Len(s) \in 1..3 THEN fmt_era("FormatAbbr", Gregorian, IF year_ce(d)[1] THEN 1 ELSE 0)
    ELSE IF Len(s) = 4 THEN fmt_era("FormatWide", Gregorian, IF year_ce(d)[1] THEN 1 ELSE 0)
    ELSE IF Len(s) = 5 THEN fmt_era("FormatNarrow", Gregorian, IF year_ce(d)[1] THEN 1 ELSE 0)
    ELSE EarlyErr

fmt_y_Full(s, d) == fmt_number(year_ce(d)[2], Len(s))

fmt_y(s, d) ==
    LET y  == year_ce(d)[2]
        yy == IF Len(s) = 2 THEN y % 100 ELSE y
    IN  fmt_number(yy, Len(s))

fmt_Y(s, d) ==
    LET y  == iso_week(d).year
        yy == IF Len(s) = 2 THEN Rem(y, 100) ELSE y
    IN  fmt_number(yy, Len(s))

fmt_u(s, d) == fmt_number(d.year, Len(s))

fmt_qQ_FromMonth(s, d) ==
    LET q == (d.month \div 3) + 1
    IN  IF Len(s) <= 2 THEN fmt_number(q, Len(s))
        ELSE IF s = Rep("Q", 3) THEN fmt_quarter("FormatAbbr", Gregorian, q)
        ELSE IF s = Rep("Q", 4) THEN fmt_quarter("FormatWide", Gregorian, q)
        ELSE IF s = Rep("Q", 5) THEN fmt_quarter("FormatNarrow", Gregorian, q)
        ELSE IF s = Rep("q", 3) THEN fmt_quarter("StandAloneAbbr", Gregorian, q)
        ELSE IF s = Rep("q", 4) THEN fmt_quarter("StandAloneWide", Gregorian, q)
        ELSE IF s = Rep("q", 5) THEN fmt_quarter("StandAloneNarrow", Gregorian, q)
        ELSE EarlyErr

fmt_qQ(s, d) ==
    LET q == (month0(d) \div 3) + 1
    IN  IF Len(s) <= 2 THEN fmt_number(q, Len(s))
        ELSE IF s = Rep("Q", 3) THEN fmt_quarter("FormatAbbr", Gregorian, q)
        ELSE IF s = Rep("Q", 4) THEN fmt_quarter("FormatWide", Gregorian, q)
        ELSE IF s = Rep("Q", 5) THEN fmt_quarter("FormatNarrow", Gregorian, q)
        ELSE IF s = Rep("q", 3) THEN fmt_quarter("StandAloneAbbr", Gregorian, q)
        ELSE IF s = Rep("q", 4) THEN fmt_quarter("StandAloneWide", Gregorian, q)
        ELSE IF s = Rep("q", 5) THEN fmt_quarter("StandAloneNarrow", Gregorian, q)
        ELSE EarlyErr

fmt_ML(s, d) ==
    IF Len(s) <= 2 THEN fmt_number(d.month, Len(s))
    ELSE IF s = Rep("M", 3) THEN fmt_month("FormatAbbr", Gregorian, d.month)
    ELSE IF s = Rep("M", 4) THEN fmt_month("FormatWide", Gregorian, d.month)
    ELSE IF s = Rep("M", 5) THEN fmt_month("FormatNarrow", Gregorian, d.month)
    ELSE IF s = Rep("L", 3) THEN fmt_month("StandAloneAbbr", Gregorian, d.month)
    ELSE IF s = Rep("L", 4) THEN fmt_month("StandAloneWide", Gregorian, d.month)
    ELSE IF s = Rep("L", 5) THEN fmt_month("StandAloneNarrow", Gregorian, d.month)
    ELSE EarlyErr

fmt_w(s, d) == fmt_number(iso_week(d).week, Len(s))

fmt_d(s, d) == fmt_number(d.day, Len(s))

fmt_D(s, d) == fmt_number(ordinal(d), Len(s))

fmt_Eec_SundayStart(s, d, ws) ==
    IF s \in {<<"e">>, <<"e", "e">>, <<"c">>, <<"c", "c">>}
    THEN fmt_number(((weekday(d) + 7) % 7) + 1, Len(s))
    ELSE IF s \in {Rep("E", 1), Rep("E", 2), Rep("E", 3), Rep("e", 3)}
         THEN fmt_day("FormatAbbr", Gregorian, weekday(d))
    ELSE IF s \in {Rep("E", 4), Rep("e", 4)} THEN fmt_day("FormatWide", Gregorian, weekday(d))
    ELSE IF s \in {Rep("E", 5), Rep("e", 5)} THEN fmt_day("FormatNarrow", Gregorian, weekday(d))
    ELSE IF s \in {Rep("E", 6), Rep("e", 6)} THEN fmt_day("FormatShort", Gregorian, weekday(d))
    ELSE IF s = Rep("c", 3) THEN fmt_day("StandAloneAbbr", Gregorian, weekday(d))
    ELSE IF s = Rep("c", 4) THEN fmt_day("StandAloneWide", Gregorian, weekday(d))
    ELSE IF s = Rep("c", 5) THEN fmt_day("StandAloneNarrow", Gregorian, weekday(d))
    ELSE IF s = Rep("c", 6) THEN fmt_day("StandAloneShort", Gregorian, weekday(d))
    ELSE EarlyErr

\* ws is facet.get_week_start().num_days_from_sunday()
fmt_Eec(s, d, ws) ==
    IF s \in {<<"e">>, <<"e", "e">>, <<"c">>, <<"c", "c">>}
    THEN fmt_number(((weekday(d) + 7 - ws) % 7) + 1, Len(s))
    ELSE IF s \in {Rep("E", 1), Rep("E", 2), Rep("E", 3), Rep("e", 3)}
         THEN fmt_day("FormatAbbr", Gregorian, weekday(d))
    ELSE IF s \in {Rep("E", 4), Rep("e", 4)} THEN fmt_day("FormatWide", Gregorian, weekday(d))
    ELSE IF s \in {Rep("E", 5), Rep("e", 5)} THEN fmt_day("FormatNarrow", Gregorian, weekday(d))
    ELSE IF s \in {Rep("E", 6), Rep("e", 6)} THEN fmt_day("FormatShort", Gregorian, weekday(d))
    ELSE IF s = Rep("c", 3) THEN fmt_day("StandAloneAbbr", Gregorian, weekday(d))
    ELSE IF s = Rep("c", 4) THEN fmt_day("StandAloneWide", Gregorian, weekday(d))
    ELSE IF s = Rep("c", 5) THEN fmt_day("StandAloneNarrow", Gregorian, weekday(d))
    ELSE IF s = Rep("c", 6) THEN fmt_day("StandAloneShort", Gregorian, weekday(d))
    ELSE EarlyErr

\* The letter sets of do_format_date's alternatives, in alt_complete! order.
DateSets == << {"G"}, {"y"}, {"Y"}, {"u"}, {"q", "Q"}, {"M", "L"}, {"w"}, {"d"}, {"D"},
               {"E", "e", "c"} >>

do_format_date(inp, ws, d) ==
    LET hit == {k \in 1..Len(DateSets) : is_a_s(inp, DateSets[k]) > 0}
    IN  IF hit = {} THEN Error
        ELSE LET k == Min(hit)
                 n == is_a_s(inp, DateSets[k])
                 s == Take(inp, n)
             IN  Done(n, CASE k = 1 -> fmt_era_of(s, d)
                           [] k = 2 -> fmt_y(s, d)
                           [] k = 3 -> fmt_Y(s, d)
                           [] k = 4 -> fmt_u(s, d)
                           [] k = 5 -> fmt_qQ(s, d)
                           [] k = 6 -> fmt_ML(s, d)
                           [] k = 7 -> fmt_w(s, d)
                           [] k = 8 -> fmt_d(s, d)
                           [] k = 9 -> fmt_D(s, d)
                           [] k = 10 -> fmt_Eec(s, d, ws))

PeriodWidth(s) ==
    IF Len(s) \in 1..3 THEN "FormatAbbr"
    ELSE IF Len(s) = 4 THEN "FormatWide"
    ELSE IF Len(s) = 5 THEN "FormatNarrow"
    ELSE "-"

fmt_a(s, t) ==
    IF PeriodWidth(s) = "-" THEN EarlyErr
    ELSE fmt_period(PeriodWidth(s), Gregorian, IF t.hour < 12 THEN "AM" ELSE "PM")

fmt_b(s, t) ==
    IF PeriodWidth(s) = "-" THEN EarlyErr
    ELSE fmt_period(PeriodWidth(s), Gregorian,
                    IF t.hour = 0 /\ t.minute = 0 /\ t.second = 0 THEN "Midnight"
                    ELSE IF t.hour = 12 /\ t.minute = 0 /\ t.second = 0 THEN "Noon"
                    ELSE IF t.hour < 12 THEN "AM"
                    ELSE "PM")

fmt_h(s, t) == fmt_number(hour12(t)[2], Len(s))

fmt_H_h12(s, t) == fmt_number(hour12(t)[2], Len(s))

fmt_H(s, t) == fmt_number(t.hour, Len(s))

fmt_K(s, t) == fmt_number(t.hour % 12, Len(s))

fmt_k_NoWrap(s, t) == fmt_number(t.hour, Len(s))

fmt_k(s, t) == fmt_number(IF t.hour = 0 THEN 24 ELSE t.hour, Len(s))

fmt_m(s, t) == fmt_number(t.minute, Len(s))

NanosPerSec == 1000000000

fmt_s_NoCarry(s, t) == fmt_number(t.second, Len(s))

fmt_s(s, t) ==
    fmt_number(t.second + (IF t.nanosecond >= NanosPerSec THEN 1 ELSE 0), Len(s))

\* The S branch's magnitude for a width below 10: no operation leaves u32.
FracValue(ns, w) == IF w < 9 THEN ns \div Pow10(w) ELSE ns

\* Width 10 and more: 10u32.pow(w) leaves u32 (10^10 > 2^32), a panic when overflow
\* checks are compiled in and a wrapped product ns * 10^w otherwise.
fmt_S(s, t, checks) ==
    LET ns == t.nanosecond % NanosPerSec
    IN  IF Len(s) <= 9 THEN fmt_number(FracValue(ns, Len(s)), Len(s))
        ELSE IF checks THEN Outcome("Panic", "none", "-", 0, 0, <<>>)
        ELSE fmt_number_u32(MulPow10(Limbs(ns), Len(s)), Len(s))

TimeSets == << {"a"}, {"b"}, {"h"}, {"H"}, {"K"}, {"k"}, {"m"}, {"s"}, {"S"} >>

do_format_time(inp, t, checks) ==
    LET hit == {k \in 1..Len(TimeSets) : is_a_s(inp, TimeSets[k]) > 0}
    IN  IF hit = {} THEN Error
        ELSE LET k == Min(hit)
                 n == is_a_s(inp, TimeSets[k])
                 s == Take(inp, n)
             IN  Done(n, CASE k = 1 -> fmt_a(s, t)
                           [] k = 2 -> fmt_b(s, t)
                           [] k = 3 -> fmt_h(s, t)
                           [] k = 4 -> fmt_H(s, t)
                           [] k = 5 -> fmt_K(s, t)
                           [] k = 6 -> fmt_k(s, t)
                           [] k = 7 -> fmt_m(s, t)
                           [] k = 8 -> fmt_s(s, t)
                           [] k = 9 -> fmt_S(s, t, checks))

\* The unfinished z branch: it is handed no sink, so it writes nothing, and its
\* value r is whatever the finished code will return.
do_format_zone(inp, tz, mz, r) ==
    LET n == is_a_s(inp, {"z"})
    IN  IF n = 0 THEN Error
        ELSE IF mz # "None"
             THEN Done(n, Outcome(r, "fmt_meta_zone",
                                  IF n <= 3 THEN "FormatAbbr" ELSE "FormatWide", 0, 0, <<>>))
             ELSE Done(n, Outcome(r, "none", "-", 0, 0, <<>>))

\* many1!(alt_complete!(is_not_s!("'") | tag_s!("''"))): the pieces matched
RECURSIVE QuotedPieces(_)
QuotedPieces(inp) ==
    IF inp = <<>> THEN <<>>
    ELSE IF is_not_s(inp, {Quote}) > 0
         THEN <<Take(inp, is_not_s(inp, {Quote}))>>
              \o QuotedPieces(Drop(inp, is_not_s(inp, {Quote})))
    ELSE IF tag_s(inp, <<Quote, Quote>>) = "Done"
         THEN <<<<Quote, Quote>>>> \o QuotedPieces(Drop(inp, 2))
    ELSE <<>>

RECURSIVE Concat(_)
Concat(ss) == IF ss = <<>> THEN <<>> ELSE Head(ss) \o Concat(Tail(ss))

WritePiece_Raw(s) == s

\* What the quoted alternative writes for one piece
WritePiece(s) == IF s = <<Quote, Quote>> THEN <<Quote>> ELSE s

\* What the '' alternative writes for its match s
WriteEscape(s) == s

write_str(text) == Outcome("Ok", "write_str", "-", 0, 0, text)

do_format_other(inp) ==
    IF is_not_s(inp, OtherStop) > 0
    THEN Done(is_not_s(inp, OtherStop), write_str(Take(inp, is_not_s(inp, OtherStop))))
    ELSE IF tag_s(inp, <<Quote, Quote>>) = "Done"
    THEN Done(2, write_str(WriteEscape(Take(inp, 2))))
    ELSE IF tag_s(inp, <<Quote>>) # "Done" THEN Error
    ELSE LET sv   == QuotedPieces(Drop(inp, 1))
             used == 1 + Len(Concat(sv))
         IN  IF sv = <<>> THEN Error
             ELSE IF tag_s(Drop(inp, used), <<Quote>>) # "Done" THEN Error
             ELSE Done(used + 1, write_str(Concat([i \in 1..Len(sv) |-> WritePiece(sv[i])])))

(* ------------------------------ the inputs ----------------------------- *)

MaxWidth == 10

MaxLen == 3

MaxQuoteLen == 6

Seqs(A, n) == UNION {[1..k -> A] : k \in 0..n}

YMD(y, m, d) == [year |-> y, month |-> m, day |-> d]

HMS(h, m, s, ns) == [hour |-> h, minute |-> m, second |-> s, nanosecond |-> ns]

Mon == 1

IsoPattern ==
    <<"y", "y", "y", "y", "-", "M", "M", "-", "d", "d", Quote, "T", Quote,
      "H", "H", ":", "m", "m", ":", "s", "s">>

IsoDates == {YMD(y, m, d) : y \in {1000, 2017, 9999}, m \in {1, 8, 12}, d \in {1, 9, 31}}

IsoTimes ==
    {HMS(h, m, s, ns) : h \in {0, 2, 12, 23}, m \in {0, 3, 59}, s \in {0, 4, 59},
                        ns \in {0, 999999999}}

SomeDates == {YMD(2017, 8, 9), YMD(-44, 3, 15), YMD(9999, 12, 31), YMD(2021, 1, 3)}

SomeTimes ==
    {HMS(2, 3, 4, 0), HMS(23, 59, 59, 1123456789), HMS(0, 0, 0, 5),
     HMS(12, 0, 0, 123456789)}

WeekDates == {YMD(2017, 8, d) : d \in 6..12}

Opt(S) == {None} \cup {Some(x) : x \in S}

RunPatterns == {Rep(c, w) : c \in Upper \cup Lower, w \in 1..MaxWidth}

PairPatterns == [1..2 -> Upper \cup Lower \cup {Quote, "-"}]

MixPatterns == Seqs({"M", "L", "s", "p", "z", "-", Quote}, MaxLen)

QuotePatterns == Seqs({Quote, "-", "s"}, MaxQuoteLen)

WeekPatterns == {Rep(c, w) : c \in {"E", "e", "c"}, w \in 1..7}

InitIso ==
    /\ fmt = IsoPattern
    /\ date \in Opt(IsoDates) \ {None}
    /\ time \in Opt(IsoTimes) \ {None}
    /\ tzinfo = "None" /\ mzinfo = "None" /\ week_start = Mon

InitRuns ==
    /\ fmt \in RunPatterns
    /\ date \in Opt(SomeDates)
    /\ time \in Opt(SomeTimes)
    /\ tzinfo = "None" /\ mzinfo = "None" /\ week_start = Mon

InitPairs ==
    /\ fmt \in PairPatterns
    /\ date \in Opt({YMD(2017, 8, 9)})
    /\ time \in Opt({HMS(2, 3, 4, 0)})
    /\ tzinfo \in {"None", "Offset"} /\ mzinfo = "None" /\ week_start = Mon

InitMix ==
    /\ fmt \in MixPatterns
    /\ date \in Opt({YMD(2017, 8, 9)})
    /\ time \in Opt({HMS(2, 3, 4, 0)})
    /\ tzinfo \in {"None", "Zone", "Offset"}
    /\ mzinfo \in {"None", "Generic"}
    /\ week_start = Mon

InitQuotes ==
    /\ fmt \in QuotePatterns
    /\ date \in Opt({YMD(2017, 8, 9)})
    /\ time \in Opt({HMS(23, 59, 59, 1123456789)})
    /\ tzinfo = "None" /\ mzinfo = "None" /\ week_start = Mon

AbortPatterns ==
    {pre \o Rep(c, w) \o post :
         pre \in {<<>>, <<"-">>, <<"d">>}, c \in {"G", "M", "a", "E"}, w \in 1..MaxWidth,
         post \in {<<>>, <<"-">>, <<"d", "d">>, <<Quote, "p", Quote>>}}

MonthPatterns == {Rep(c, w) : c \in {"q", "Q", "M", "L"}, w \in 1..MaxWidth}

HourPatterns == {Rep(c, w) : c \in {"h", "H", "K", "k"}, w \in 1..MaxWidth}

InitAbort ==
    /\ fmt \in AbortPatterns
    /\ date = Some(YMD(2017, 8, 9))
    /\ time = Some(HMS(2, 3, 4, 0))
    /\ tzinfo = "None" /\ mzinfo = "None" /\ week_start = Mon

InitMonths ==
    /\ fmt \in MonthPatterns
    /\ date \in {Some(YMD(2017, m, 1)) : m \in 1..12}
    /\ time = None
    /\ tzinfo = "None" /\ mzinfo = "None" /\ week_start = Mon

InitHours ==
    /\ fmt \in HourPatterns
    /\ date = None
    /\ time \in {Some(HMS(h, 0, 0, 0)) : h \in 0..23}
    /\ tzinfo = "None" /\ mzinfo = "None" /\ week_start = Mon

InitWeek ==
    /\ fmt \in WeekPatterns
    /\ date \in Opt(WeekDates) \ {None}
    /\ time = None
    /\ tzinfo = "None" /\ mzinfo = "None"
    /\ week_start \in 0..6

Init ==
    /\ \/ InitIso \/ InitRuns \/ InitPairs \/ InitMix \/ InitQuotes \/ InitWeek
       \/ InitAbort \/ InitMonths \/ InitHours
    /\ pc = "start"
    /\ lookup = "none"
    /\ input = <<>>
    /\ acc = "Ok"
    /\ out = <<>>
    /\ calls = <<>>
    /\ result = "none"

(* --------------------- Time::format_datetime_to ------------------------ *)

SelectFormat_NoneAsTime(d, t) ==
    IF is_some(d) /\ is_some(t) THEN "datetime"
    ELSE IF is_some(d) THEN "date"
    ELSE "time"

\* match (date.is_some(), time.is_some()): the format lookup made, "none" for Err
SelectFormat(d, t) ==
    IF is_some(d) /\ is_some(t) THEN "datetime"
    ELSE IF is_some(d) THEN "date"
    ELSE IF is_some(t) THEN "time"
    ELSE "none"

Lookup(sel, f) ==
    IF sel = "datetime" THEN get_datetime_format(f)
    ELSE IF sel = "date" THEN get_date_format(f)
    ELSE IF sel = "time" THEN get_time_format(f)
    ELSE [res |-> "Err", fmt |-> <<>>]

\* Lines 64-69: the lookup and the ? on its result
Call ==
    /\ pc = "start"
    /\ lookup' = SelectFormat(date, time)
    /\ LET tfmt == Lookup(SelectFormat(date, time), fmt)
       IN  IF tfmt.res = "Ok"
           THEN /\ input' = tfmt.fmt
                /\ pc' = "fold"
                /\ result' = result
           ELSE /\ input' = input
                /\ pc' = "done"
                /\ result' = "Err"
    /\ UNCHANGED <<date, time, tzinfo, mzinfo, fmt, week_start, acc, out, calls>>

And_Last(a, e) == e

\* |a, e| a.and(e)
And(a, e) == IF a = "Ok" THEN e ELSE a

\* The conditions of the cond_reduce! alternatives
DateOn == is_some(date)

TimeOn == is_some(time)

ZoneOn == tzinfo # "None"

DateHit == DateOn /\ do_format_date(input, week_start, unwrap(date)).done

TimeHit == TimeOn /\ do_format_time(input, unwrap(time), FALSE).done

ZoneHit == ZoneOn /\ do_format_zone(input, tzinfo, mzinfo, "Ok").done

OtherHit == do_format_other(input).done

\* One round of fold_many0!: the directive ir was parsed and its closure ran.
Directive(ir) ==
    IF ir.o.res = "Panic"
    THEN /\ pc' = "panicked"
         /\ UNCHANGED <<input, acc, out, calls>>
    ELSE /\ pc' = pc
         /\ input' = Drop(input, ir.n)
         /\ acc' = And(acc, ir.o.res)
         /\ out' = out \o ir.o.text
         /\ calls' = Append(calls, [res |-> ir.o.res, op |-> ir.o.op, w |-> ir.o.w,
                                    n |-> ir.o.n, digits |-> ir.o.digits,
                                    text |-> ir.o.text,
                                    pos |-> Len(fmt) - Len(input) + 1, len |-> ir.n])

FormatDate ==
    /\ pc = "fold"
    /\ DateHit
    /\ Directive(do_format_date(input, week_start, unwrap(date)))
    /\ UNCHANGED <<date, time, tzinfo, mzinfo, fmt, week_start, lookup, result>>

FormatTime ==
    /\ pc = "fold"
    /\ ~DateHit /\ TimeHit
    /\ \E checks \in BOOLEAN : Directive(do_format_time(input, unwrap(time), checks))
    /\ UNCHANGED <<date, time, tzinfo, mzinfo, fmt, week_start, lookup, result>>

FormatZone ==
    /\ pc = "fold"
    /\ ~DateHit /\ ~TimeHit /\ ZoneHit
    /\ \E r \in {"Ok", "Err"} : Directive(do_format_zone(input, tzinfo, mzinfo, r))
    /\ UNCHANGED <<date, time, tzinfo, mzinfo, fmt, week_start, lookup, result>>

FormatOther ==
    /\ pc = "fold"
    /\ ~DateHit /\ ~TimeHit /\ ~ZoneHit /\ OtherHit
    /\ Directive(do_format_other(input))
    /\ UNCHANGED <<date, time, tzinfo, mzinfo, fmt, week_start, lookup, result>>

FinalResult_AnyRest(rest, r) == r

\* match res { Done("", r) => r, _ => Err(fmt::Error) }
FinalResult(rest, r) == IF rest = <<>> THEN r ELSE "Err"

\* No alternative parses the input: fold_many0! stops and the result is matched
Finish ==
    /\ pc = "fold"
    /\ ~DateHit /\ ~TimeHit /\ ~ZoneHit /\ ~OtherHit
    /\ result' = FinalResult(input, acc)
    /\ pc' = "done"
    /\ UNCHANGED <<date, time, tzinfo, mzinfo, fmt, week_start, lookup, input, acc, out, calls>>

Next == Call \/ FormatDate \/ FormatTime \/ FormatZone \/ FormatOther \/ Finish

Spec == Init /\ [][Next]_vars

(* ------------------------------ properties ----------------------------- *)

DateLetters == {"G", "y", "Y", "u", "q", "Q", "M", "L", "w", "d", "D", "E", "e", "c"}

TimeLetters == {"a", "b", "h", "H", "K", "k", "m", "s", "S"}

ZoneLetters == {"z", "Z", "O", "v", "V", "X", "x"}

IsLetter(c) == c \in Upper \cup Lower

\* Position i of pattern p lies outside every quoted run.
Unquoted(p, i) == Cardinality({j \in 1..(i - 1) : p[j] = Quote}) % 2 = 0

\* Call record c is the rendering of a directive that spans position i.
Covers(c, i) == c.pos <= i /\ i < c.pos + c.len

Supplied == is_some(date) \/ is_some(time)

D2(n) == <<DigitChar[(n \div 10) + 1], DigitChar[(n % 10) + 1]>>

D4(n) == D2(n \div 100) \o D2(n % 100)

IsoCase ==
    /\ fmt = IsoPattern /\ is_some(date) /\ is_some(time) /\ week_start = Mon
    /\ unwrap(date).year \in 1000..9999
    /\ unwrap(time).nanosecond < NanosPerSec

\* C1: under the default facet the pattern yyyy-MM-dd'T'HH:mm:ss, with a date of
\* year 1000..9999 and a time without leap-second carry, never panics and ends in
\* success with exactly yyyy-MM-ddTHH:mm:ss written, every field zero-padded.
C1_IsoDatetime ==
    IsoCase =>
        /\ pc # "panicked"
        /\ pc = "done" =>
              /\ result = "Ok"
              /\ out = D4(unwrap(date).year) \o <<"-">> \o D2(unwrap(date).month) \o <<"-">>
                       \o D2(unwrap(date).day) \o <<"T">> \o D2(unwrap(time).hour) \o <<":">>
                       \o D2(unwrap(time).minute) \o <<":">> \o D2(unwrap(time).second)

C1_Witness ==
    /\ pc = "done" /\ result = "Ok" /\ fmt = IsoPattern
    /\ date = Some(YMD(2017, 8, 9)) /\ time = Some(HMS(2, 3, 4, 0))
    /\ out = <<"2", "0", "1", "7", "-", "0", "8", "-", "0", "9", "T",
               "0", "2", ":", "0", "3", ":", "0", "4">>

\* Field letter at position i of the pattern whose input was not supplied.
MissingInput(i) ==
    /\ Unquoted(fmt, i)
    /\ \/ fmt[i] \in DateLetters /\ date = None
       \/ fmt[i] \in TimeLetters /\ time = None

\* C2: a pattern with an unquoted field letter whose input (date or time) was not
\* supplied ends in failure, and no directive covering that letter was rendered.
C2_MissingInputFails ==
    pc = "done" =>
        \A i \in 1..Len(fmt) :
            MissingInput(i) =>
                /\ result = "Err"
                /\ \A k \in 1..Len(calls) : ~Covers(calls[k], i)

C2_Witness ==
    /\ pc = "done" /\ result = "Err"
    /\ date = None /\ is_some(time)
    /\ fmt = <<"s", "y">> /\ out = <<"4">>

\* C3: a pattern with an unquoted ASCII letter outside the recognised set ends in
\* failure, and that letter is never written (no directive covering it is rendered),
\* whichever of date and time are supplied.
C3_UnknownLetterFails ==
    pc = "done" =>
        \A i \in 1..Len(fmt) :
            (/\ Unquoted(fmt, i) /\ IsLetter(fmt[i])
             /\ fmt[i] \notin DateLetters \cup TimeLetters \cup ZoneLetters) =>
                /\ result = "Err"
                /\ \A k \in 1..Len(calls) : ~Covers(calls[k], i)

C3_Witness ==
    /\ pc = "done" /\ result = "Err"
    /\ is_some(date) /\ is_some(time)
    /\ fmt = <<"-", "p">> /\ out = <<"-">>

\* C4: every field directive rendered is the maximal run of one and the same
\* letter: all its characters equal its first, and the next character differs.
C4_RunOfOneLetter ==
    \A k \in 1..Len(calls) :
        LET c == calls[k]
        IN  IsLetter(fmt[c.pos]) =>
                /\ \A j \in c.pos..(c.pos + c.len - 1) : fmt[j] = fmt[c.pos]
                /\ c.pos + c.len <= Len(fmt) => fmt[c.pos + c.len] # fmt[c.pos]

C4_Witness ==
    /\ pc = "done" /\ result = "Ok"
    /\ fmt = <<"M", "L">> /\ date = Some(YMD(2017, 8, 9))
    /\ Len(calls) = 1 /\ calls[1].len = 2 /\ out = <<"0", "8">>

\* Pattern text with quoting removed: each '' pair is one quote, all else verbatim.
RECURSIVE Unescape(_)
Unescape(p) ==
    IF p = <<>> THEN <<>>
    ELSE IF p[1] = Quote /\ Len(p) >= 2 /\ p[2] = Quote THEN <<Quote>> \o Unescape(Drop(p, 2))
    ELSE <<p[1]>> \o Unescape(Tail(p))

\* p is built only from non-letter, non-quote characters and '' pairs.
RECURSIVE LiteralOnly(_)
LiteralOnly(p) ==
    IF p = <<>> THEN TRUE
    ELSE IF p[1] = Quote THEN Len(p) >= 2 /\ p[2] = Quote /\ LiteralOnly(Drop(p, 2))
    ELSE ~IsLetter(p[1]) /\ LiteralOnly(Tail(p))

\* C5: a pattern built only from non-letter literal text and '' pairs succeeds
\* (with a date or a time supplied) and writes the pattern with each '' as one quote.
C5_LiteralVerbatim ==
    (pc = "done" /\ Supplied /\ LiteralOnly(fmt)) =>
        /\ result = "Ok"
        /\ out = Unescape(fmt)

\* The closing quote of a quoted run whose body is scanned from position k: the
\* first quote that is not the first of a '' pair; 0 when there is none.
RECURSIVE CloseAt(_, _)
CloseAt(p, k) ==
    IF k > Len(p) THEN 0
    ELSE IF p[k] # Quote THEN CloseAt(p, k + 1)
    ELSE IF k + 1 <= Len(p) /\ p[k + 1] = Quote THEN CloseAt(p, k + 2)
    ELSE k

\* The positions where a quoted run opens, scanning from position k: a quote
\* outside any run that is not the first of a '' pair.
RECURSIVE RunStarts(_, _)
RunStarts(p, k) ==
    IF k > Len(p) THEN {}
    ELSE IF p[k] # Quote THEN RunStarts(p, k + 1)
    ELSE IF k + 1 <= Len(p) /\ p[k + 1] = Quote THEN RunStarts(p, k + 2)
    ELSE IF CloseAt(p, k + 1) = 0 THEN {k}
    ELSE {k} \cup RunStarts(p, CloseAt(p, k + 1) + 1)

\* The first position of the pattern the fold did not consume
StoppedAt == Len(fmt) - Len(input) + 1

\* C6: a quoted run 'body' the render reaches is written as one literal, body with
\* every '' collapsed to one quote, and nothing inside it is dispatched as a field
\* (a run is not reached only when the render failed before it); a pattern with
\* an unmatched quote (a run never closed, an odd number of quotes) fails.
C6_QuotedRun ==
    (pc = "done" /\ Supplied) =>
        /\ \A i \in RunStarts(fmt, 1) :
              LET j == CloseAt(fmt, i + 1)
              IN  IF j = 0 THEN result = "Err" /\ StoppedAt <= i
                  ELSE /\ \/ result = "Err" /\ StoppedAt < i
                          \/ \E k \in 1..Len(calls) :
                                /\ calls[k].pos = i /\ calls[k].len = j - i + 1
                                /\ calls[k].op = "write_str" /\ calls[k].res = "Ok"
                                /\ calls[k].text = Unescape(SubSeq(fmt, i + 1, j - 1))
                       /\ \A k \in 1..Len(calls) : ~(i < calls[k].pos /\ calls[k].pos <= j)
        /\ Cardinality({i \in 1..Len(fmt) : fmt[i] = Quote}) % 2 = 1 => result = "Err"

C6_Witness ==
    /\ pc = "done" /\ result = "Ok" /\ Supplied
    /\ fmt = <<Quote, "s", Quote, Quote, "s", Quote>>
    /\ out = <<"s", Quote, "s">>

DigitVal(c) == CHOOSE d \in 0..9 : DigitChar[d + 1] = c

IsDigit(c) == \E d \in 0..9 : DigitChar[d + 1] = c

\* The number a string of digits denotes (short enough for TLC's 32-bit integers)
RECURSIVE ValueOf(_)
ValueOf(s) == IF s = <<>> THEN 0 ELSE ValueOf(Take(s, Len(s) - 1)) * 10 + DigitVal(s[Len(s)])

\* The u32, as limbs, a string of digits denotes
RECURSIVE ValueOfU32(_)
ValueOfU32(s) ==
    IF s = <<>> THEN <<0, 0>>
    ELSE LET x  == ValueOfU32(Take(s, Len(s) - 1))
             lo == x[2] * 10 + DigitVal(s[Len(s)])
         IN  <<x[1] * 10 + (lo \div Limb), lo % Limb>>

\* The call's number was carried as limbs (the S field wider than 9).
IsWide(c) == fmt[c.pos] = "S" /\ c.len > 9

\* text is n written in decimal, a minus sign first when negative, zero-filled
\* after the sign to w characters when shorter, and never cut.
Padded(text, n, w, wide) ==
    LET neg  == ~wide /\ n < 0
        body == IF neg THEN Tail(text) ELSE text
    IN  /\ text # <<>> /\ body # <<>>
        /\ neg => text[1] = "-"
        /\ \A i \in 1..Len(body) : IsDigit(body[i])
        /\ IF wide THEN ValueOfU32(body) = n ELSE ValueOf(body) = (IF neg THEN -n ELSE n)
        /\ Len(text) >= w
        /\ Len(text) > w => (Len(body) = 1 \/ body[1] # "0")

\* C7 as stated, for the fields other than S (whose value is the subject of C10):
\* the text of every numeric field of width w has exactly w digits.
C7_ExactlyWDigits ==
    \A k \in 1..Len(calls) :
        (calls[k].op = "fmt_number" /\ fmt[calls[k].pos] # "S") =>
            Len(calls[k].text) = calls[k].len

\* C7 amended: every numeric field of width w passes w as the digit count and its
\* text is the value zero-padded to at least w characters (a minus sign counted),
\* never truncated: exactly w only when the value needs no more; the sink holds
\* the texts of the directives in order.
C7_PaddedAtLeastW ==
    /\ out = Concat([k \in 1..Len(calls) |-> calls[k].text])
    /\ \A k \in 1..Len(calls) :
           LET c == calls[k]
           IN  c.op = "fmt_number" =>
                   /\ c.digits = c.len /\ c.res = "Ok"
                   /\ Padded(c.text, c.n, c.len, IsWide(c))

C7_Witness ==
    /\ pc = "done" /\ result = "Ok"
    /\ fmt = <<"M", "M">> /\ date = Some(YMD(2017, 8, 9))
    /\ out = <<"0", "8">>

\* C8: y passes the year of era and Y the ISO-week year, cut to the two low digits
\* (congruent modulo 100, magnitude below 100) at width 2 and whole at any other
\* width; u passes the proleptic year whole at every width; the width is the run.
C8_YearFields ==
    \A k \in 1..Len(calls) :
        LET c    == calls[k]
            d    == unwrap(date)
            era  == IF d.year > 0 THEN d.year ELSE 1 - d.year
            isoy == iso_week(d).year
        IN  /\ fmt[c.pos] = "y" =>
                  /\ c.op = "fmt_number" /\ c.digits = c.len
                  /\ c.n = (IF c.len = 2 THEN era % 100 ELSE era)
            /\ fmt[c.pos] = "Y" =>
                  /\ c.op = "fmt_number" /\ c.digits = c.len
                  /\ IF c.len = 2 THEN (isoy - c.n) % 100 = 0 /\ c.n > -100 /\ c.n < 100
                     ELSE c.n = isoy
            /\ fmt[c.pos] = "u" =>
                  /\ c.op = "fmt_number" /\ c.digits = c.len /\ c.n = d.year

C8_Witness ==
    /\ pc = "done" /\ result = "Ok"
    /\ fmt = <<"y", "y">> /\ date = Some(YMD(2017, 8, 9))
    /\ calls[1].n = 17 /\ out = <<"1", "7">>

\* C9: the s field passes second + 1 when the nanosecond component is at least
\* 1,000,000,000 and second otherwise, a value in 0..60.
C9_LeapSecond ==
    \A k \in 1..Len(calls) :
        LET c == calls[k]
            t == unwrap(time)
        IN  fmt[c.pos] = "s" =>
                /\ c.op = "fmt_number" /\ c.digits = c.len
                /\ c.n = t.second + (IF t.nanosecond >= 1000000000 THEN 1 ELSE 0)
                /\ c.n \in 0..60

C9_Witness ==
    /\ pc = "done" /\ result = "Ok"
    /\ fmt = <<"s">> /\ time = Some(HMS(23, 59, 59, 1123456789))
    /\ calls[1].n = 60 /\ out = <<"6", "0">>

\* C10: the S field of width w never overflows and passes the nanosecond remainder
\* scaled to w digits: its leading w digits for w < 9, itself for w = 9, and itself
\* followed by w - 9 zeros for w > 9.
C10_FractionScaled ==
    /\ pc # "panicked"
    /\ \A k \in 1..Len(calls) :
           LET c   == calls[k]
               rem == unwrap(time).nanosecond % 1000000000
           IN  fmt[c.pos] = "S" =>
                   /\ c.op = "fmt_number" /\ c.digits = c.len
                   /\ IF c.len <= 9 THEN c.n = rem \div Pow10(9 - c.len)
                      ELSE /\ c.n = MulPow10(Limbs(rem), c.len - 9)
                           /\ c.text = Digits(rem) \o Rep("0", c.len - 9)

\* Call record c renders a maximal run of one and the same letter.
PureRun(c) == \A j \in c.pos..(c.pos + c.len - 1) : fmt[j] = fmt[c.pos]

\* Call record c is a field directive of one date or time letter that failed.
FailedField(c) ==
    /\ c.res = "Err" /\ PureRun(c)
    /\ fmt[c.pos] \in DateLetters \cup TimeLetters

\* C11 as stated, for a failing field of one letter: once it has failed, no later
\* directive writes text.
C11_NothingAfterFailure ==
    \A k \in 1..Len(calls) :
        FailedField(calls[k]) =>
            \A l \in (k + 1)..Len(calls) : calls[l].text = <<>>

\* C11 amended: once a directive has failed the fold result is failure and stays
\* so, the render ends in failure, and the sink holds the text of every directive
\* rendered, those before the failing one included (later ones are still rendered).
C11_FailureSurfaces ==
    (\E k \in 1..Len(calls) : calls[k].res = "Err") =>
        /\ acc = "Err"
        /\ pc = "done" => result = "Err"
        /\ out = Concat([k \in 1..Len(calls) |-> calls[k].text])

C11_Witness ==
    /\ pc = "done" /\ result = "Err"
    /\ fmt = <<"d">> \o Rep("G", 6) \o <<"-">>
    /\ calls[2].res = "Err" /\ out = <<"9", "-">>

\* C12: with neither a date nor a time supplied the call fails for every pattern
\* in one step: no get_*_format lookup is made, no directive is rendered and
\* nothing is written.
C12_NeitherSupplied ==
    (date = None /\ time = None) =>
        /\ pc \in {"start", "done"}
        /\ lookup = "none"
        /\ calls = <<>> /\ out = <<>>
        /\ pc = "done" => result = "Err"

C12_Witness ==
    /\ pc = "done" /\ result = "Err"
    /\ date = None /\ time = None
    /\ fmt = <<>> /\ out = <<>> /\ lookup = "none"

\* The FormatWidth the widths 3, 4, 5 select: Format for the upper-case letter,
\* StandAlone for the other.
NameWidth(letter, w) ==
    (IF letter \in {"Q", "M"} THEN "Format" ELSE "StandAlone")
    \o (IF w = 3 THEN "Abbr" ELSE IF w = 4 THEN "Wide" ELSE "Narrow")

\* Call record c renders a q/Q or M/L field of value v through the facet method
\* named: a number up to width 2, a name at widths 3 to 5, a failure from width 6.
NumberOrName(c, v, named) ==
    IF c.len <= 2 THEN c.op = "fmt_number" /\ c.n = v /\ c.digits = c.len /\ c.res = "Ok"
    ELSE IF c.len <= 5
         THEN c.op = named /\ c.n = v /\ c.w = NameWidth(fmt[c.pos], c.len) /\ c.res = "Ok"
    ELSE c.op = "none" /\ c.res = "Err" /\ c.text = <<>>

\* C13: a q/Q field passes the quarter (month - 1) div 3 + 1, in 1..4, and an M/L
\* field the month: through fmt_number zero-padded at width 1-2, through
\* fmt_quarter / fmt_month with Abbr, Wide, Narrow at width 3, 4, 5 (Format for
\* Q and M, StandAlone for q and L), and it fails at width 6 and more.
C13_QuarterAndMonth ==
    \A k \in 1..Len(calls) :
        LET c == calls[k]
            m == unwrap(date).month
            q == ((m - 1) \div 3) + 1
        IN  PureRun(c) =>
                /\ fmt[c.pos] \in {"q", "Q"} => q \in 1..4 /\ NumberOrName(c, q, "fmt_quarter")
                /\ fmt[c.pos] \in {"M", "L"} => NumberOrName(c, m, "fmt_month")

C13_Witness ==
    /\ pc = "done" /\ result = "Ok"
    /\ fmt = Rep("q", 4) /\ date = Some(YMD(2017, 6, 1))
    /\ calls[1].op = "fmt_quarter" /\ calls[1].w = "StandAloneWide" /\ calls[1].n = 2
    /\ out = <<"Q", "2">>

\* The FormatWidth a weekday name of width w takes: Format for E and e,
\* StandAlone for c.
DayWidth(letter, w) ==
    (IF letter = "c" THEN "StandAlone" ELSE "Format")
    \o (IF w <= 3 THEN "Abbr" ELSE IF w = 4 THEN "Wide" ELSE IF w = 5 THEN "Narrow" ELSE "Short")

\* C14: e and c at width 1-2 pass the 1-based index of the date's weekday counted
\* from the facet's week-start day: in 1..7, 1 exactly on the week-start day, 7
\* exactly on the day before it; every other E, e, c field up to width 6 renders
\* the weekday's name through fmt_day, widths 1-3 Abbr, 4 Wide, 5 Narrow, 6 Short,
\* Format for E and e, StandAlone for c.
C14_Weekday ==
    \A k \in 1..Len(calls) :
        LET c  == calls[k]
            wd == weekday(unwrap(date))
        IN  (PureRun(c) /\ fmt[c.pos] \in {"E", "e", "c"} /\ c.len <= 6) =>
                IF fmt[c.pos] \in {"e", "c"} /\ c.len <= 2
                THEN /\ c.op = "fmt_number" /\ c.digits = c.len /\ c.res = "Ok"
                     /\ c.n \in 1..7
                     /\ (week_start + c.n - 1) % 7 = wd
                     /\ c.n = 1 <=> wd = week_start
                     /\ c.n = 7 <=> wd = (week_start + 6) % 7
                ELSE /\ c.op = "fmt_day" /\ c.res = "Ok"
                     /\ c.n = wd /\ c.w = DayWidth(fmt[c.pos], c.len)
                     /\ c.text # <<>>

\* 2017-08-06 is a Sunday: with weeks starting on Saturday (6) it is day 2.
C14_Witness ==
    /\ pc = "done" /\ result = "Ok"
    /\ fmt = <<"e", "e">> /\ date = Some(YMD(2017, 8, 6)) /\ week_start = 6
    /\ calls[1].n = 2 /\ out = <<"0", "2">>

\* The value the hour field `letter` passes for the hour of day hr
HourValue(letter, hr) ==
    IF letter = "H" THEN hr
    ELSE IF letter = "K" THEN hr % 12
    ELSE IF letter = "h" THEN (IF hr % 12 = 0 THEN 12 ELSE hr % 12)
    ELSE (IF hr = 0 THEN 24 ELSE hr)

\* The range of the hour field `letter`
HourRange(letter) ==
    IF letter = "H" THEN 0..23
    ELSE IF letter = "K" THEN 0..11
    ELSE IF letter = "h" THEN 1..12
    ELSE 1..24

\* C15: for every hour of day 0..23 the fields H, K, h, k pass to fmt_number, with
\* the field width, the hour in the cycles 0..23, 0..11, 1..12 (12 for hour mod 12
\* = 0) and 1..24 (24 for hour 0).
C15_HourCycles ==
    \A k \in 1..Len(calls) :
        LET c == calls[k]
        IN  fmt[c.pos] \in {"h", "H", "K", "k"} =>
                /\ c.op = "fmt_number" /\ c.digits = c.len /\ c.res = "Ok"
                /\ c.n = HourValue(fmt[c.pos], unwrap(time).hour)
                /\ c.n \in HourRange(fmt[c.pos])

C15_Witness ==
    /\ pc = "done" /\ result = "Ok"
    /\ fmt = <<"k", "k">> /\ time = Some(HMS(0, 0, 0, 0))
    /\ calls[1].n = 24 /\ out = <<"2", "4">>
====
